---------------------------- MODULE Spec2Model ----------------------------
(***************************************************************************)
(* The customWaterfall visual (Source/customWaterfall/src/barChart.ts):    *)
(* the view-model transform, the update callback with its d3 data join,    *)
(* and the click handler that waits for the selection manager's promise.   *)
(*                                                                         *)
(* JavaScript values are tagged records, so that undefined, NaN, numbers,  *)
(* arrays and objects can be compared with each other.                     *)
(***************************************************************************)
EXTENDS Integers, Sequences, FiniteSets

VARIABLES
    visualSettings,  \* this.visualSettings: Undefined before the first update
    viewModel,       \* the view model the last completed update rendered
    yDomain,         \* the domain of yScale of the last completed update
    bars,            \* the rect.bar elements of barContainer, in document order
    nextId,          \* number of rect elements created so far
    pending,         \* select() promises not yet resolved, with their closures
    options,         \* the options of the latest update call
    outcome,         \* "none" | "ok" | "threw": how the latest update ended
    lastAction,      \* "construct" | "update" | "click" | "resolve" | "enumerate"
    lastResolution,  \* the latest resolution applied by a click handler
    enumerated       \* what the latest enumerateObjectInstances call returned

vars == <<visualSettings, viewModel, yDomain, bars, nextId, pending, options,
          outcome, lastAction, lastResolution, enumerated>>

(***************************************************************************)
(* Bounds of the model.                                                    *)
(***************************************************************************)
MaxLen == 3       \* rows of a table handed to a single update
MaxSeqLen == 2    \* rows of a table in a sequence of updates
MaxNodes == 4     \* rect elements created in one run
MaxPending == 2   \* select() promises in flight

\* Measure values of the tables: a negative, zero, and a positive one.
Values == {-1, 0, 2}

(***************************************************************************)
(* JavaScript values and the operators the code applies to them.           *)
(***************************************************************************)
Undefined == [tag |-> "undefined"]
NaN == [tag |-> "NaN"]
Num(n) == [tag |-> "number", n |-> n]
Arr(s) == [tag |-> "array", items |-> s]

IsNum(v) == v.tag = "number"

\* !v : undefined is falsy, arrays and objects are truthy.
Falsy(v) == v.tag = "undefined"

\* a[i], 0-based: undefined outside the array.
Index(a, i) == IF 0 <= i /\ i < Len(a.items) THEN a.items[i + 1] ELSE Undefined

Length(a) == Len(a.items)

\* ToNumber of the values that reach arithmetic here.
ToNumber(v) == IF IsNum(v) THEN v ELSE NaN

JsAdd(a, b) ==
    LET x == ToNumber(a)
        y == ToNumber(b)
    IN  IF IsNum(x) /\ IsNum(y) THEN Num(x.n + y.n) ELSE NaN

JsSub(a, b) ==
    LET x == ToNumber(a)
        y == ToNumber(b)
    IN  IF IsNum(x) /\ IsNum(y) THEN Num(x.n - y.n) ELSE NaN

JsMul(a, b) ==
    LET x == ToNumber(a)
        y == ToNumber(b)
    IN  IF IsNum(x) /\ IsNum(y) THEN Num(x.n * y.n) ELSE NaN

\* Math.max, Math.min: NaN as soon as one argument is.
MathMax(a, b) ==
    LET x == ToNumber(a)
        y == ToNumber(b)
    IN  IF IsNum(x) /\ IsNum(y) THEN (IF x.n >= y.n THEN x ELSE y) ELSE NaN

MathMin(a, b) ==
    LET x == ToNumber(a)
        y == ToNumber(b)
    IN  IF IsNum(x) /\ IsNum(y) THEN (IF x.n <= y.n THEN x ELSE y) ELSE NaN

MathAbs(a) ==
    LET x == ToNumber(a)
    IN  IF IsNum(x) THEN (IF x.n < 0 THEN Num(-x.n) ELSE x) ELSE NaN

\* a >= b, a <= b: false as soon as one side is NaN.
JsGe(a, b) ==
    LET x == ToNumber(a)
        y == ToNumber(b)
    IN  IsNum(x) /\ IsNum(y) /\ x.n >= y.n

JsLe(a, b) ==
    LET x == ToNumber(a)
        y == ToNumber(b)
    IN  IsNum(x) /\ IsNum(y) /\ x.n <= y.n


(***************************************************************************)
(* Settings and their parser.                                              *)
(***************************************************************************)
\* new BarChartSettings()
BarChartSettings ==
    [autoAdjustment |-> TRUE, positiveColor |-> "red",
     negativeColor |-> "blue", totalColor |-> "green"]

\* new VisualSettings(), which is also VisualSettings.getDefault()
VisualSettings == [tag |-> "object", barCharSettings |-> BarChartSettings]

\* What the parser keeps of one property of the barCharSettings object: the
\* default when the object or the property is missing, the colour of a fill,
\* the value of a boolean.
getCommonValue(objects, propertyName, defaultValue) ==
    IF Falsy(objects.barCharSettings) THEN defaultValue
    ELSE LET v == objects.barCharSettings[propertyName]
         IN  IF Falsy(v) THEN defaultValue
             ELSE IF v.tag = "fill" THEN v.solid.color
             ELSE v.value

\* VisualSettings.parse(dataView): the defaults, overridden by the objects of
\* the data view's metadata.
parse(dataView) ==
    IF Falsy(dataView) \/ Falsy(dataView.metadata) \/ Falsy(dataView.metadata.objects)
    THEN VisualSettings
    ELSE [tag |-> "object",
          barCharSettings |->
            [p \in DOMAIN BarChartSettings |->
                getCommonValue(dataView.metadata.objects, p, BarChartSettings[p])]]

(***************************************************************************)
(* The inputs the host hands to update.                                    *)
(***************************************************************************)
Bool(b) == [tag |-> "boolean", value |-> b]
Fill(c) == [tag |-> "fill", solid |-> [color |-> c]]
Str(i) == [tag |-> "string", name |-> i]

\* metadata.objects.barCharSettings as the format pane writes it: every
\* property is set or left out.
SettingsObjects ==
    {[tag |-> "object", autoAdjustment |-> a, positiveColor |-> p,
      negativeColor |-> n, totalColor |-> t] :
        a \in {Undefined, Bool(TRUE), Bool(FALSE)},
        p \in {Undefined, Fill("orange")},
        n \in {Undefined, Fill("purple")},
        t \in {Undefined, Fill("black")}}

Objects ==
    {Undefined} \cup {[tag |-> "object", barCharSettings |-> s] : s \in SettingsObjects}

SeqObjects ==
    {Undefined,
     [tag |-> "object",
      barCharSettings |->
        [tag |-> "object", autoAdjustment |-> Bool(FALSE),
         positiveColor |-> Fill("orange"), negativeColor |-> Fill("purple"),
         totalColor |-> Fill("black")]]}

Source(name) == [tag |-> "object", displayName |-> name]

CategoryColumn(source, n) ==
    [tag |-> "object", source |-> source,
     values |-> Arr([i \in 1..n |-> Str(i - 1)])]

ValueColumn(vals) ==
    [tag |-> "object", source |-> Source("Measure"),
     values |-> Arr([i \in 1..Len(vals) |-> Num(vals[i])])]

Categorical(categories, values) ==
    [tag |-> "object", categories |-> categories, values |-> values]

DataView(objects, categorical) ==
    [tag |-> "object", metadata |-> [tag |-> "object", objects |-> objects],
     categorical |-> categorical]

UpdateOptions(dataViews) == [dataViews |-> dataViews]

SeqsUpTo(S, n) == UNION {[1..k -> S] : k \in 0..n}

\* A table: one category column of catLen entries, one value column.
Table(objects, catLen, vals) ==
    UpdateOptions(Arr(<<DataView(objects,
        Categorical(Arr(<<CategoryColumn(Source("Category"), catLen)>>),
                    Arr(<<ValueColumn(vals)>>)))>>))

\* The shapes the host can hand over that are not a table.
MisShaped(objects) ==
    LET cats == Arr(<<CategoryColumn(Source("Category"), 1)>>)
        vals == Arr(<<ValueColumn(<<2>>)>>)
    IN  { UpdateOptions(Undefined),
          UpdateOptions(Arr(<<>>)),
          UpdateOptions(Arr(<<Undefined>>)),
          UpdateOptions(Arr(<<DataView(objects, Undefined)>>)),
          UpdateOptions(Arr(<<DataView(objects, Categorical(Undefined, vals))>>)),
          UpdateOptions(Arr(<<DataView(objects, Categorical(Arr(<<>>), vals))>>)),
          UpdateOptions(Arr(<<DataView(objects,
              Categorical(Arr(<<CategoryColumn(Undefined, 1)>>), vals))>>)),
          UpdateOptions(Arr(<<DataView(objects, Categorical(cats, Undefined))>>)),
          UpdateOptions(Arr(<<DataView(objects, Categorical(cats, Arr(<<>>)))>>)) }

\* Every input of a single update.
Options ==
    {Table(o, cl, v) : o \in Objects, cl \in 0..MaxLen, v \in SeqsUpTo(Values, MaxLen)}
    \cup UNION {MisShaped(o) : o \in Objects}

\* The inputs of the updates of a sequence.
SeqOptions ==
    {Table(o, Len(v), v) : o \in SeqObjects, v \in SeqsUpTo(Values, MaxSeqLen)}
    \cup UNION {MisShaped(o) : o \in SeqObjects}

\* The inputs of the updates that interleave with clicks: tables that differ
\* in their number of rows, and an update without data views.
RowOptions ==
    {Table(Undefined, k, [i \in 1..k |-> 2]) : k \in 0..MaxSeqLen}
    \cup {UpdateOptions(Undefined)}

(***************************************************************************)
(* visualTransform.                                                        *)
(***************************************************************************)
\* The view model visualTransform starts from and returns when the guard
\* rejects the data view.
EmptyViewModel ==
    [dataPoints |-> <<>>, dataMax |-> Num(0), dataMin |-> Num(0),
     dataAdjustment |-> Num(0), settings |-> BarChartSettings]

\* The guard: "return" the empty view model, "pass", or "throw" when
\* categories[0] is undefined and its source is read.
Guard(dataViews) ==
    IF Falsy(dataViews) THEN "return"
    ELSE IF Falsy(Index(dataViews, 0)) THEN "return"
    ELSE IF Falsy(Index(dataViews, 0).categorical) THEN "return"
    ELSE IF Falsy(Index(dataViews, 0).categorical.categories) THEN "return"
    ELSE IF Falsy(Index(Index(dataViews, 0).categorical.categories, 0)) THEN "throw"
    ELSE IF Falsy(Index(Index(dataViews, 0).categorical.categories, 0).source) THEN "return"
    ELSE IF Falsy(Index(dataViews, 0).categorical.values) THEN "return"
    ELSE "pass"

\* host.createSelectionIdBuilder().withCategory(category, i)
\*     .withMeasure(displayName).createSelectionId()
createSelectionId(i, displayName) == [category |-> i, measure |-> displayName]

\* Polarity with zero counted as negative.
PolarityStrict(v) ==
    IF IsNum(v) /\ v.n > 0 THEN "positive" ELSE "negative"

\* The class of a point that is not the last one.
Polarity(v) == IF JsGe(v, Num(0)) THEN "positive" ELSE "negative"

\* The colour of a point that is not the last one.
PolarityColor(v, settings) ==
    IF JsGe(v, Num(0)) THEN settings.positiveColor ELSE settings.negativeColor

\* TotalPoint treating the last index like every other one.
TotalPointAsStep(category, dataValue, i, settings) ==
    [category |-> Index(category.values, i),
     value |-> Index(dataValue.values, i),
     start |-> Num(0),
     end |-> Index(dataValue.values, i),
     class |-> IF JsGe(Index(dataValue.values, i), Num(0)) THEN "positive" ELSE "negative",
     selectionId |-> [category |-> i, measure |-> dataValue.source.displayName],
     color |-> IF JsGe(Index(dataValue.values, i), Num(0))
               THEN settings.positiveColor ELSE settings.negativeColor,
     columnLabel |-> category.source.displayName]

\* The point pushed for the last index.
TotalPoint(category, dataValue, i, settings) ==
    [category |-> Index(category.values, i),
     value |-> Index(dataValue.values, i),
     start |-> Num(0),
     end |-> Index(dataValue.values, i),
     class |-> "total",
     selectionId |-> createSelectionId(i, dataValue.source.displayName),
     color |-> settings.totalColor,
     columnLabel |-> category.source.displayName]

\* StepPoint starting every bar from zero.
StepPointFromZero(category, dataValue, i, cumulative, settings) ==
    [category |-> Index(category.values, i),
     value |-> Index(dataValue.values, i),
     start |-> Num(0),
     end |-> Index(dataValue.values, i),
     class |-> IF JsGe(Index(dataValue.values, i), Num(0)) THEN "positive" ELSE "negative",
     selectionId |-> [category |-> i, measure |-> dataValue.source.displayName],
     color |-> IF JsGe(Index(dataValue.values, i), Num(0))
               THEN settings.positiveColor ELSE settings.negativeColor,
     columnLabel |-> category.source.displayName]

\* The point pushed for every other index.
StepPoint(category, dataValue, i, cumulative, settings) ==
    [category |-> Index(category.values, i),
     value |-> Index(dataValue.values, i),
     start |-> cumulative,
     end |-> JsAdd(Index(dataValue.values, i), cumulative),
     class |-> Polarity(Index(dataValue.values, i)),
     selectionId |-> createSelectionId(i, dataValue.source.displayName),
     color |-> PolarityColor(Index(dataValue.values, i), settings),
     columnLabel |-> category.source.displayName]

\* LoopLen stopping at the shorter column.
LoopLenShorter(category, dataValue) ==
    IF Length(category.values) <= Length(dataValue.values)
    THEN Length(category.values) ELSE Length(dataValue.values)

\* The number of iterations of the loop.
LoopLen(category, dataValue) ==
    IF Length(category.values) >= Length(dataValue.values)
    THEN Length(category.values) ELSE Length(dataValue.values)

\* The for loop from index i on: the points pushed, and the final dataMax.
RECURSIVE Loop(_, _, _, _, _, _, _, _)
Loop(category, dataValue, settings, i, len, cumulative, dataMax, points) ==
    IF i >= len THEN [dataPoints |-> points, dataMax |-> dataMax]
    ELSE Loop(category, dataValue, settings, i + 1, len,
              JsAdd(cumulative, Index(dataValue.values, i)),
              MathMax(dataMax, cumulative),
              Append(points,
                     IF i = len - 1
                     THEN TotalPoint(category, dataValue, i, settings)
                     ELSE StepPoint(category, dataValue, i, cumulative, settings)))

\* dataMax - 2 * |dataMax - min(last value, first value)|
Adjustment(dataMax, dataValue) ==
    JsSub(dataMax,
          JsMul(Num(2),
                MathAbs(JsSub(dataMax,
                              MathMin(Index(dataValue.values, Length(dataValue.values) - 1),
                                      Index(dataValue.values, 0))))))

\* The dataMin of the returned view model.
DataMin(points) == Num(0)

\* visualTransform(options, host) with this.visualSettings = thisSettings:
\* [threw |-> TRUE], or the view model returned.
visualTransform(opts, thisSettings) ==
    LET g == Guard(opts.dataViews) IN
    IF g = "throw" THEN [threw |-> TRUE]
    ELSE IF g = "return" THEN [threw |-> FALSE, viewModel |-> EmptyViewModel]
    ELSE LET categorical == Index(opts.dataViews, 0).categorical
             category == Index(categorical.categories, 0)
             dataValue == Index(categorical.values, 0)
         IN  IF Falsy(dataValue) THEN [threw |-> TRUE]
             ELSE LET settings == thisSettings.barCharSettings
                      r == Loop(category, dataValue, settings, 0,
                                LoopLen(category, dataValue), Num(0), Num(0), <<>>)
                  IN  [threw |-> FALSE,
                       viewModel |->
                         [dataPoints |-> r.dataPoints,
                          dataMax |-> r.dataMax,
                          dataMin |-> DataMin(r.dataPoints),
                          dataAdjustment |-> Adjustment(r.dataMax, dataValue),
                          settings |-> settings]]

(***************************************************************************)
(* The rendered bars.  An element keeps its fill-opacity attribute (the    *)
(* attribute's text; Undefined while never set) and its click listener,    *)
(* which closes over the selection `bars` of the update that bound it.     *)
(***************************************************************************)
solidOpacity == "1"
transparentOpacity == "0.4"

\* selectAll('.bar').data(dataPoints), enter().append('rect'), on('click'),
\* exit().remove(): the first n elements stay, missing ones are created, the
\* others are removed; every element of the selection gets the new listener.
DataJoin(elements, n, firstNewId) ==
    LET joined == [k \in 1..n |->
                     IF k <= Len(elements) THEN elements[k]
                     ELSE [id |-> firstNewId + (k - Len(elements)) - 1,
                           fillOpacity |-> Undefined,
                           onclick |-> {}]]
        selection == {joined[k].id : k \in 1..n}
    IN  [k \in 1..n |-> [joined[k] EXCEPT !.onclick = selection]]

Created(elements, n) == IF n > Len(elements) THEN n - Len(elements) ELSE 0

\* What the resolved promise's callback does to one rendered element.
ApplyResolution(element, click, nonEmpty) ==
    IF element.id = click.this
    THEN [element EXCEPT !.fillOpacity = [tag |-> "attr", text |-> solidOpacity]]
    ELSE IF element.id \in click.bars
    THEN [element EXCEPT !.fillOpacity =
              [tag |-> "attr",
               text |-> IF nonEmpty THEN transparentOpacity ELSE solidOpacity]]
    ELSE element

(***************************************************************************)
(* update.                                                                 *)
(***************************************************************************)
\* thisVisualSettings keeping the settings of the first update.
thisVisualSettingsStale(before, parsed) == IF Falsy(before) THEN parsed ELSE before

\* this.visualSettings as visualTransform and update read it: the value
\* update assigned just before.
thisVisualSettings(before, parsed) == parsed

\* The lower bound of the y domain.
adjustment(vm, settings) ==
    IF ~settings.barCharSettings.autoAdjustment THEN Num(0) ELSE vm.dataAdjustment

update(opts) ==
    /\ options' = opts
    /\ lastAction' = "update"
    /\ UNCHANGED <<pending, lastResolution, enumerated>>
    /\ IF Falsy(opts.dataViews)
       THEN \* options.dataViews[0] throws
            /\ outcome' = "threw"
            /\ UNCHANGED <<visualSettings, viewModel, yDomain, bars, nextId>>
       ELSE LET parsed == parse(Index(opts.dataViews, 0))
                r == visualTransform(opts, thisVisualSettings(visualSettings, parsed))
            IN  /\ visualSettings' = parsed
                /\ IF r.threw
                   THEN /\ outcome' = "threw"
                        /\ UNCHANGED <<viewModel, yDomain, bars, nextId>>
                   ELSE LET n == Len(r.viewModel.dataPoints) IN
                        /\ nextId + Created(bars, n) <= MaxNodes
                        /\ outcome' = "ok"
                        /\ viewModel' = r.viewModel
                        /\ yDomain' =
                             [tag |-> "domain",
                              lower |-> adjustment(r.viewModel,
                                           thisVisualSettings(visualSettings, parsed)),
                              upper |-> r.viewModel.dataMax]
                        /\ bars' = DataJoin(bars, n, nextId)
                        /\ nextId' = nextId + Created(bars, n)

(***************************************************************************)
(* A click on a rendered bar, and the resolution of its promise.           *)
(***************************************************************************)
click(k) ==
    /\ k \in 1..Len(bars)
    /\ Len(pending) < MaxPending
    /\ pending' = Append(pending, [this |-> bars[k].id, bars |-> bars[k].onclick])
    /\ lastAction' = "click"
    /\ UNCHANGED <<visualSettings, viewModel, yDomain, bars, nextId, options,
                   outcome, lastResolution, enumerated>>

\* The promise of the j-th pending click resolves with a list of ids that is
\* empty or not, as the selection manager decides.
resolve(j, nonEmpty) ==
    /\ j \in 1..Len(pending)
    /\ bars' = [k \in 1..Len(bars) |-> ApplyResolution(bars[k], pending[j], nonEmpty)]
    /\ pending' = [k \in 1..(Len(pending) - 1) |->
                      IF k < j THEN pending[k] ELSE pending[k + 1]]
    /\ lastResolution' = [tag |-> "applied", nonEmpty |-> nonEmpty,
                          this |-> pending[j].this]
    /\ lastAction' = "resolve"
    /\ UNCHANGED <<visualSettings, viewModel, yDomain, nextId, options, outcome,
                   enumerated>>

(***************************************************************************)
(* enumerateObjectInstances.                                               *)
(***************************************************************************)
\* The object names the format pane asks for: the one the visual declares,
\* and one it does not.
ObjectNames == {"barCharSettings", "general"}

\* this.visualSettings || VisualSettings.getDefault()
settingsOrDefault(settings) == IF Falsy(settings) THEN VisualSettings ELSE settings

\* VisualSettings.enumerateObjectInstances(settings, options): one instance
\* holding the properties of the object asked for, none for an object the
\* settings do not have.
enumerateInstances(settings, objectName) ==
    IF objectName \in DOMAIN settings /\ objectName # "tag"
    THEN [objectName |-> objectName,
          instances |-> <<[objectName |-> objectName, properties |-> settings[objectName]]>>]
    ELSE [objectName |-> objectName, instances |-> <<>>]

enumerateObjectInstances(objectName) ==
    /\ enumerated' = enumerateInstances(settingsOrDefault(visualSettings), objectName)
    /\ lastAction' = "enumerate"
    /\ UNCHANGED <<visualSettings, viewModel, yDomain, bars, nextId, pending, options,
                   outcome, lastResolution>>

(***************************************************************************)
(* The state after the constructor, and the specifications.                *)
(***************************************************************************)
Constructed ==
    /\ visualSettings = Undefined
    /\ viewModel = Undefined
    /\ yDomain = Undefined
    /\ bars = <<>>
    /\ nextId = 0
    /\ pending = <<>>
    /\ outcome = "none"
    /\ lastAction = "construct"
    /\ lastResolution = [tag |-> "none"]
    /\ enumerated = Undefined

Init == Constructed /\ options = Undefined

\* An update with any input of a sequence.
Update == \E o \in SeqOptions : update(o)

\* An update with a table of k rows, or with no data views at all.
UpdateRows == \E o \in RowOptions : update(o)

Click == \E k \in 1..MaxSeqLen : click(k)

Resolve == \E j \in 1..MaxPending, nonEmpty \in BOOLEAN : resolve(j, nonEmpty)

Enumerate == \E objectName \in ObjectNames : enumerateObjectInstances(objectName)

Next == UpdateRows \/ Click \/ Resolve \/ Enumerate

\* Every interleaving of updates, clicks, resolutions and enumerations.
Spec == Init /\ [][Next]_vars

\* Every sequence of updates.
SpecUpdates == Init /\ [][Update]_vars

\* Every sequence of updates and enumerations.
SpecEnumerate == Init /\ [][Update \/ Enumerate]_vars

\* One update of a freshly constructed visual, for every input.
InitTransform == Constructed /\ options \in Options

UpdateHost == outcome = "none" /\ update(options)

SpecTransform == InitTransform /\ [][UpdateHost]_vars

(***************************************************************************)
(* The input of the latest update, as the properties below read it.       *)
(***************************************************************************)
\* The data view has every part the guard asks for, and a value column.
HasTable ==
    /\ ~Falsy(options.dataViews)
    /\ Length(options.dataViews) > 0
    /\ ~Falsy(options.dataViews.items[1])
    /\ ~Falsy(options.dataViews.items[1].categorical)
    /\ ~Falsy(options.dataViews.items[1].categorical.categories)
    /\ Length(options.dataViews.items[1].categorical.categories) > 0
    /\ ~Falsy(options.dataViews.items[1].categorical.categories.items[1].source)
    /\ ~Falsy(options.dataViews.items[1].categorical.values)
    /\ Length(options.dataViews.items[1].categorical.values) > 0

InputCategories == options.dataViews.items[1].categorical.categories.items[1].values.items

InputValues == options.dataViews.items[1].categorical.values.items[1].values.items

\* The latest update transformed a table.
Transformed == lastAction = "update" /\ outcome = "ok" /\ HasTable

\* The latest update transformed a table of n >= 1 rows.
TransformedRows ==
    Transformed /\ Len(InputCategories) = Len(InputValues) /\ Len(InputValues) >= 1

\* values[0] + ... + values[i-1]
RECURSIVE SumTo(_, _)
SumTo(vals, i) == IF i = 0 THEN 0 ELSE SumTo(vals, i - 1) + vals[i].n

(***************************************************************************)
(* C1: for a table of n >= 1 rows, every point i that is not the last one  *)
(* starts at the sum of the values before it and ends at that sum plus its *)
(* own value, so that it ends where the next non-last point starts.        *)
(***************************************************************************)
C1_RunningSum ==
    TransformedRows =>
        \A i \in 1..(Len(InputValues) - 1) :
            /\ viewModel.dataPoints[i].start = Num(SumTo(InputValues, i - 1))
            /\ viewModel.dataPoints[i].end =
                   Num(SumTo(InputValues, i - 1) + InputValues[i].n)
            /\ i + 1 < Len(InputValues) =>
                   viewModel.dataPoints[i].end = viewModel.dataPoints[i + 1].start

\* Three rows, the second bar starting above zero and ending elsewhere.
C1_Witness ==
    /\ TransformedRows
    /\ Len(InputValues) >= 3
    /\ viewModel.dataPoints[2].start = Num(2)
    /\ viewModel.dataPoints[2].end = Num(1)

(***************************************************************************)
(* C2: the last point of a transformed table is the total: class 'total',  *)
(* start 0, end equal to its own value, and the total colour of the        *)
(* current settings, whatever the values before it sum to.                 *)
(***************************************************************************)
C2_LastIsTotal ==
    (Transformed /\ Len(viewModel.dataPoints) >= 1) =>
        LET last == viewModel.dataPoints[Len(viewModel.dataPoints)]
        IN  /\ last.class = "total"
            /\ last.start = Num(0)
            /\ last.end = last.value
            /\ last.value = Index(Arr(InputValues), Len(viewModel.dataPoints) - 1)
            /\ last.color = visualSettings.barCharSettings.totalColor

\* A negative last value after rows that sum to something else than zero.
C2_Witness ==
    /\ TransformedRows
    /\ Len(InputValues) >= 2
    /\ InputValues[Len(InputValues)] = Num(-1)
    /\ viewModel.dataPoints[Len(InputValues) - 1].end = Num(2)
    /\ viewModel.dataPoints[Len(InputValues)].color = "black"

\* The data view is absent or lacks a part the guard asks for.
NullOrMisShaped ==
    \/ Falsy(options.dataViews)
    \/ Length(options.dataViews) = 0
    \/ Falsy(options.dataViews.items[1])
    \/ Falsy(options.dataViews.items[1].categorical)
    \/ Falsy(options.dataViews.items[1].categorical.categories)
    \/ Length(options.dataViews.items[1].categorical.categories) = 0
    \/ Falsy(options.dataViews.items[1].categorical.categories.items[1].source)
    \/ Falsy(options.dataViews.items[1].categorical.values)

(***************************************************************************)
(* C3: an update whose data view is null or mis-shaped (dataViews absent   *)
(* or empty, first data view absent, no categorical, categories absent or  *)
(* empty, first category without source, values absent) does not fail and  *)
(* renders the empty view model with the default settings.                 *)
(***************************************************************************)
C3_FallsBackToEmpty ==
    (lastAction = "update" /\ NullOrMisShaped) =>
        /\ outcome = "ok"
        /\ viewModel = [dataPoints |-> <<>>, dataMax |-> Num(0), dataMin |-> Num(0),
                        dataAdjustment |-> Num(0),
                        settings |-> [autoAdjustment |-> TRUE, positiveColor |-> "red",
                                      negativeColor |-> "blue", totalColor |-> "green"]]

\* update(opts) on a freshly constructed visual, where this.visualSettings
\* was undefined before.
FreshUpdate(opts) ==
    IF Falsy(opts.dataViews) THEN [outcome |-> "threw"]
    ELSE LET parsed == parse(Index(opts.dataViews, 0))
             r == visualTransform(opts, thisVisualSettings(Undefined, parsed))
         IN  IF r.threw THEN [outcome |-> "threw", visualSettings |-> parsed]
             ELSE [outcome |-> "ok", visualSettings |-> parsed,
                   viewModel |-> r.viewModel,
                   yDomain |-> [tag |-> "domain",
                                lower |-> adjustment(r.viewModel,
                                              thisVisualSettings(Undefined, parsed)),
                                upper |-> r.viewModel.dataMax]]

(***************************************************************************)
(* C4: after any sequence of updates, what the latest update rendered (its *)
(* view model with its settings, and the y domain) is what the same update *)
(* renders on a freshly constructed visual: nothing of an earlier update   *)
(* survives in it.                                                         *)
(***************************************************************************)
C4_LatestUpdateAlone ==
    (outcome # "none") =>
        LET fresh == FreshUpdate(options)
        IN  /\ outcome = fresh.outcome
            /\ outcome = "ok" =>
                   /\ viewModel = fresh.viewModel
                   /\ yDomain = fresh.yDomain
                   /\ visualSettings = fresh.visualSettings
                   /\ \A i \in 1..Len(viewModel.dataPoints) :
                          /\ viewModel.dataPoints[i].value = Index(Arr(InputValues), i - 1)
                          /\ viewModel.dataPoints[i].color \in
                                 {visualSettings.barCharSettings[c] :
                                      c \in {"positiveColor", "negativeColor", "totalColor"}}

\* The latest update rendered fewer bars, in other colours, than an earlier one.
C4_Witness ==
    /\ outcome = "ok"
    /\ HasTable
    /\ nextId > Len(bars)
    /\ Len(viewModel.dataPoints) >= 1
    /\ viewModel.settings.totalColor = "black"
    /\ nextId >= 2

(***************************************************************************)
(* C5: dataMax is the maximum of the data: no point's value and no bar's   *)
(* upper edge max(start, end), the total bar included, exceeds it.         *)
(***************************************************************************)
C5_DataMaxIsMaximum ==
    TransformedRows =>
        \A i \in 1..Len(viewModel.dataPoints) :
            /\ JsLe(viewModel.dataPoints[i].value, viewModel.dataMax)
            /\ JsLe(MathMax(viewModel.dataPoints[i].start, viewModel.dataPoints[i].end),
                    viewModel.dataMax)

(***************************************************************************)
(* C6: dataMin is the minimum of the values of the data points.            *)
(***************************************************************************)
C6_DataMinIsMinimum ==
    TransformedRows =>
        /\ \A i \in 1..Len(viewModel.dataPoints) :
               JsLe(viewModel.dataMin, viewModel.dataPoints[i].value)
        /\ \E i \in 1..Len(viewModel.dataPoints) :
               viewModel.dataMin = viewModel.dataPoints[i].value

(***************************************************************************)
(* C7: a point that is not the last one is 'positive' with the positive    *)
(* colour of the current settings exactly when its value is >= 0 (zero     *)
(* included), and 'negative' with the negative colour otherwise.           *)
(***************************************************************************)
C7_Polarity ==
    Transformed =>
        \A i \in 1..(Len(viewModel.dataPoints) - 1) :
            LET d == viewModel.dataPoints[i]
            IN  IF IsNum(d.value) /\ d.value.n >= 0
                THEN /\ d.class = "positive"
                     /\ d.color = visualSettings.barCharSettings.positiveColor
                ELSE /\ d.class = "negative"
                     /\ d.color = visualSettings.barCharSettings.negativeColor

\* A zero and a negative value before the last row, in customised colours.
C7_Witness ==
    /\ TransformedRows
    /\ Len(InputValues) >= 3
    /\ viewModel.dataPoints[1].value = Num(0)
    /\ viewModel.dataPoints[1].color = "orange"
    /\ viewModel.dataPoints[2].value = Num(-1)
    /\ viewModel.dataPoints[2].color = "purple"

C9_DomainLowerBound ==
    Transformed =>
        /\ yDomain.upper = viewModel.dataMax
        /\ yDomain.lower =
               (IF visualSettings.barCharSettings.autoAdjustment
                THEN JsSub(viewModel.dataMax,
                           JsMul(Num(2),
                                 MathAbs(JsSub(viewModel.dataMax,
                                               MathMin(Index(Arr(InputValues),
                                                             Len(InputValues) - 1),
                                                       Index(Arr(InputValues), 0))))))
                ELSE Num(0))
        /\ JsLe(yDomain.lower, yDomain.upper)

\* The opacity an element is drawn with: solid while the attribute is unset.
RenderedOpacity(element) ==
    IF Falsy(element.fillOpacity) THEN "1" ELSE element.fillOpacity.text

(***************************************************************************)
(* C10: once a resolution has been applied, the rendered bars follow it:   *)
(* with a non-empty id list the clicked bar is solid and every other       *)
(* rendered bar transparent, with an empty list every rendered bar is      *)
(* solid, also when an update ran between the click and the resolution.    *)
(***************************************************************************)
C10_ConsistentHighlight ==
    (lastAction = "resolve") =>
        \A k \in 1..Len(bars) :
            RenderedOpacity(bars[k]) =
                (IF lastResolution.nonEmpty /\ bars[k].id # lastResolution.this
                 THEN "0.4" ELSE "1")

\* The settings the latest update call leaves to enumerate: those of its
\* first data view, the defaults when it has none.
LatestSettings ==
    IF outcome = "none" \/ Falsy(options.dataViews) \/ Length(options.dataViews) = 0
       \/ Falsy(options.dataViews.items[1])
       \/ Falsy(options.dataViews.items[1].metadata.objects)
    THEN [autoAdjustment |-> TRUE, positiveColor |-> "red",
          negativeColor |-> "blue", totalColor |-> "green"]
    ELSE LET o == options.dataViews.items[1].metadata.objects.barCharSettings
         IN  [autoAdjustment |->
                  IF Falsy(o.autoAdjustment) THEN TRUE ELSE o.autoAdjustment.value,
              positiveColor |->
                  IF Falsy(o.positiveColor) THEN "red" ELSE o.positiveColor.solid.color,
              negativeColor |->
                  IF Falsy(o.negativeColor) THEN "blue" ELSE o.negativeColor.solid.color,
              totalColor |->
                  IF Falsy(o.totalColor) THEN "green" ELSE o.totalColor.solid.color]

(***************************************************************************)
(* C11: enumerateObjectInstances never fails for lack of settings: before  *)
(* the first update it enumerates the default settings (autoAdjustment     *)
(* true, red, blue, green), and after one or more updates exactly the      *)
(* settings of the most recent update.                                     *)
(***************************************************************************)
C11_EnumeratesLatestSettings ==
    (lastAction = "enumerate" /\ enumerated.objectName = "barCharSettings") =>
        /\ Len(enumerated.instances) = 1
        /\ enumerated.instances[1].properties = LatestSettings

=============================================================================
